---- MODULE Spec2Model ----
(***************************************************************************)
(* LawyerHub reward engine (src/reward-system.py, class RewardSystem) and  *)
(* the simplified reward functions embedded in the backend service         *)
(* (src/lawyerhub-backend.py).                                             *)
(*                                                                         *)
(* Number representation (Python floats are modelled in fixed point):      *)
(*   rating                      tenths        (4.8  -> 48)                *)
(*   success_rate, response_rate,                                          *)
(*   profile_completion          hundredths    (0.87 -> 87)                *)
(*   recency_factor, search boost hundredths   (1.1  -> 110)               *)
(*   avg_response_time_minutes   whole minutes                             *)
(*   reward points               integers; the running float sum inside    *)
(*                               calculate_reward_points in 10^-5 point    *)
(* A lawyer_data dict is a function whose DOMAIN is the set of keys that   *)
(* are present; an absent metric is a key outside the DOMAIN.              *)
(***************************************************************************)
EXTENDS Integers, Sequences, FiniteSets, TLC

VARIABLES
    db,     \* RewardSystem.db is not None (set once by __init__)
    call,   \* name of the operation invoked last
    args,   \* its arguments
    ret,    \* what it returned, a record
    history,  \* the history entries the _record_* methods built, in call order
    users,    \* backend: the users collection (the lawyer documents)
    reviews,  \* backend: the reviews collection, a set of documents
    requests  \* backend: the post_review requests and their local variables

vars == <<db, call, args, ret, history, users, reviews, requests>>

-----------------------------------------------------------------------------
(* Generic helpers *)

Min(a, b) == IF a <= b THEN a ELSE b
Max(a, b) == IF a >= b THEN a ELSE b

ToSet(s) == {s[i] : i \in DOMAIN s}

EmptyDict == [k \in {} |-> 0]

\* dict.get(k, default)
Get(d, k, default) == IF k \in DOMAIN d THEN d[k] ELSE default

\* `if d.get(k):` -- present and non-zero (all values are numbers)
GetTruthy(d, k) == k \in DOMAIN d /\ d[k] # 0

\* `if d.get(k) is not None:`
GetNotNone(d, k) == k \in DOMAIN d

\* an optional value: <<>> (absent) or <<v>>
Opt(S) == {<<>>} \cup {<<v>> : v \in S}

\* the dict holding the keys of `o` (key -> optional value) that are present
Dict(o) == [k \in {f \in DOMAIN o : o[f] # <<>>} |-> o[k][1]]

-----------------------------------------------------------------------------
(* Tier tables, RewardSystem class constants *)

Tiers == {"standard", "silver", "gold", "platinum"}

TIER_THRESHOLDS ==
    [standard |-> 0, silver |-> 150, gold |-> 300, platinum |-> 500]

\* tenths
TIER_RATING_REQUIREMENTS ==
    [standard |-> 0, silver |-> 35, gold |-> 40, platinum |-> 45]

\* mutant: platinum asks for 20 reviews, as gold does
TIER_REVIEW_REQUIREMENTS_platinum20 ==
    [standard |-> 0, silver |-> 10, gold |-> 20, platinum |-> 20]

TIER_REVIEW_REQUIREMENTS ==
    [standard |-> 0, silver |-> 10, gold |-> 20, platinum |-> 30]

\* the order the loop of determine_reward_tier walks the tiers in
TierLoopOrder == <<"platinum", "gold", "silver", "standard">>

\* mutant: the review-count comparison is reversed
TierQualifiesReversed(tier, points, rating, review_count) ==
    /\ points >= TIER_THRESHOLDS[tier]
    /\ rating >= TIER_RATING_REQUIREMENTS[tier]
    /\ review_count <= TIER_REVIEW_REQUIREMENTS[tier]

\* the condition of the `if` inside the loop of determine_reward_tier
TierQualifies(tier, points, rating, review_count) ==
    /\ points >= TIER_THRESHOLDS[tier]
    /\ rating >= TIER_RATING_REQUIREMENTS[tier]
    /\ review_count >= TIER_REVIEW_REQUIREMENTS[tier]

RECURSIVE TierLoop(_, _, _, _)
TierLoop(i, points, rating, review_count) ==
    IF i > Len(TierLoopOrder) THEN "standard"
    ELSE IF TierQualifies(TierLoopOrder[i], points, rating, review_count)
         THEN TierLoopOrder[i]
         ELSE TierLoop(i + 1, points, rating, review_count)

\* RewardSystem.determine_reward_tier
determine_reward_tier(points, rating, review_count) ==
    TierLoop(1, points, rating, review_count)

\* mutant: the gold branch of the backend compares the review count with >
backend_determine_reward_tier_gt(points, rating, review_count) ==
    IF points >= 500 /\ rating >= 45 /\ review_count >= 30 THEN "platinum"
    ELSE IF points >= 300 /\ rating >= 40 /\ review_count > 20 THEN "gold"
    ELSE IF points >= 150 /\ rating >= 35 /\ review_count >= 10 THEN "silver"
    ELSE "standard"

\* backend determine_reward_tier
backend_determine_reward_tier(points, rating, review_count) ==
    IF points >= 500 /\ rating >= 45 /\ review_count >= 30 THEN "platinum"
    ELSE IF points >= 300 /\ rating >= 40 /\ review_count >= 20 THEN "gold"
    ELSE IF points >= 150 /\ rating >= 35 /\ review_count >= 10 THEN "silver"
    ELSE "standard"

-----------------------------------------------------------------------------
(* Badges, RewardSystem *)

\* float('inf'), the default of the upper-bound checks: larger than every
\* number the model compares it with
Infinity == 1000000000

\* the keys of BADGE_CRITERIA in insertion order (the order of the loop)
BadgeOrder ==
    <<"Top Rated", "Client Favorite", "Rising Star", "Experienced Pro",
      "Perfect Score", "Quick Responder", "Case Winner", "Top 10%">>

\* ratings in tenths, rates in hundredths
BADGE_CRITERIA ==
    ("Top Rated" :> [min_rating |-> 48, min_reviews |-> 10]) @@
    ("Client Favorite" :> [min_rating |-> 45, min_reviews |-> 20]) @@
    ("Rising Star" :> [min_rating |-> 40, min_reviews |-> 5,
                       max_reviews |-> 15, max_days_registered |-> 180]) @@
    ("Experienced Pro" :> [min_reviews |-> 30]) @@
    ("Perfect Score" :> [exact_rating |-> 50, min_reviews |-> 3]) @@
    ("Quick Responder" :> [response_rate |-> 90, avg_response_time_hours |-> 4,
                           min_inquiries |-> 15]) @@
    ("Case Winner" :> [success_rate |-> 75, min_cases |-> 10]) @@
    ("Top 10%" :> [percentile |-> 10, metric |-> "rating", min_reviews |-> 15])

\* mutant: the percentile check fails without a db connection
CriterionFailsPercentileNeedsDb(self_db, key, criteria, lawyer_data) ==
    CASE key = "min_rating" ->
            Get(lawyer_data, "rating", 0) < criteria.min_rating
      [] key = "exact_rating" ->
            Get(lawyer_data, "rating", 0) # criteria.exact_rating
      [] key = "min_reviews" ->
            Get(lawyer_data, "review_count", 0) < criteria.min_reviews
      [] key = "max_reviews" ->
            Get(lawyer_data, "review_count", 0) > criteria.max_reviews
      [] key = "max_days_registered" ->
            Get(lawyer_data, "days_active", Infinity) > criteria.max_days_registered
      [] key = "response_rate" ->
            Get(lawyer_data, "response_rate", 0) < criteria.response_rate
      [] key = "avg_response_time_hours" ->
            Get(lawyer_data, "avg_response_time_minutes", Infinity)
                > 60 * criteria.avg_response_time_hours
      [] key = "min_inquiries" ->
            Get(lawyer_data, "total_inquiries", 0) < criteria.min_inquiries
      [] key = "success_rate" ->
            Get(lawyer_data, "success_rate", 0) < criteria.success_rate
      [] key = "min_cases" ->
            Get(lawyer_data, "cases_completed", 0) < criteria.min_cases
      [] key = "percentile" -> ~self_db
      [] OTHER -> FALSE

\* whether the check of one criterion sets criteria_met = False.  The
\* percentile check is `pass` with and without a db connection, and the
\* "metric" key is never read: neither ever fails.  minutes / 60 > hours is
\* minutes > 60 * hours.
CriterionFails(self_db, key, criteria, lawyer_data) ==
    CASE key = "min_rating" ->
            Get(lawyer_data, "rating", 0) < criteria.min_rating
      [] key = "exact_rating" ->
            Get(lawyer_data, "rating", 0) # criteria.exact_rating
      [] key = "min_reviews" ->
            Get(lawyer_data, "review_count", 0) < criteria.min_reviews
      [] key = "max_reviews" ->
            Get(lawyer_data, "review_count", 0) > criteria.max_reviews
      [] key = "max_days_registered" ->
            Get(lawyer_data, "days_active", Infinity) > criteria.max_days_registered
      [] key = "response_rate" ->
            Get(lawyer_data, "response_rate", 0) < criteria.response_rate
      [] key = "avg_response_time_hours" ->
            Get(lawyer_data, "avg_response_time_minutes", Infinity)
                > 60 * criteria.avg_response_time_hours
      [] key = "min_inquiries" ->
            Get(lawyer_data, "total_inquiries", 0) < criteria.min_inquiries
      [] key = "success_rate" ->
            Get(lawyer_data, "success_rate", 0) < criteria.success_rate
      [] key = "min_cases" ->
            Get(lawyer_data, "cases_completed", 0) < criteria.min_cases
      [] key = "percentile" -> IF self_db THEN FALSE ELSE FALSE
      [] OTHER -> FALSE

\* mutant: one criterion that holds is enough for the badge
criteria_met_any(self_db, badge_name, lawyer_data) ==
    \E key \in DOMAIN BADGE_CRITERIA[badge_name] :
        ~CriterionFails(self_db, key, BADGE_CRITERIA[badge_name], lawyer_data)

\* criteria_met at the end of one iteration of the loop over BADGE_CRITERIA
criteria_met(self_db, badge_name, lawyer_data) ==
    \A key \in DOMAIN BADGE_CRITERIA[badge_name] :
        ~CriterionFails(self_db, key, BADGE_CRITERIA[badge_name], lawyer_data)

\* the loop over BADGE_CRITERIA.items(), appending each badge whose criteria
\* are met
RECURSIVE BadgeLoop(_, _, _, _)
BadgeLoop(i, eligible_badges, self_db, lawyer_data) ==
    IF i > Len(BadgeOrder) THEN eligible_badges
    ELSE BadgeLoop(i + 1,
                   IF criteria_met(self_db, BadgeOrder[i], lawyer_data)
                   THEN Append(eligible_badges, BadgeOrder[i])
                   ELSE eligible_badges,
                   self_db, lawyer_data)

\* RewardSystem.check_badge_eligibility: the list eligible_badges
check_badge_eligibility(self_db, lawyer_data) ==
    BadgeLoop(1, <<>>, self_db, lawyer_data)

-----------------------------------------------------------------------------
(* Badges, backend *)

\* the keys of the backend's badge_criteria dict in insertion order
BackendBadgeOrder ==
    <<"Top Rated", "Client Favorite", "Rising Star", "Experienced Pro",
      "Perfect Score">>

\* the backend's badge_criteria dict: badge name -> bool
badge_criteria(rating, review_count) ==
    ("Top Rated" :> (rating >= 48 /\ review_count >= 10)) @@
    ("Client Favorite" :> (rating >= 45 /\ review_count >= 20)) @@
    ("Rising Star" :> (rating >= 40 /\ review_count >= 5 /\ review_count < 15)) @@
    ("Experienced Pro" :> (review_count >= 30)) @@
    ("Perfect Score" :> (rating = 50 /\ review_count >= 3))

\* "Add new badges": append every badge whose criteria hold and is not held
RECURSIVE AddNewBadges(_, _, _)
AddNewBadges(i, badges, crit) ==
    IF i > Len(BackendBadgeOrder) THEN badges
    ELSE LET badge == BackendBadgeOrder[i] IN
         AddNewBadges(i + 1,
                      IF crit[badge] /\ badge \notin ToSet(badges)
                      THEN Append(badges, badge) ELSE badges,
                      crit)

\* "Remove badges that no longer apply": the list comprehension keeping the
\* badges that are keys of badge_criteria with a true value
RECURSIVE KeepApplying(_, _, _)
KeepApplying(i, badges, crit) ==
    IF i > Len(badges) THEN <<>>
    ELSE LET rest == KeepApplying(i + 1, badges, crit) IN
         IF badges[i] \in DOMAIN crit /\ crit[badges[i]]
         THEN <<badges[i]>> \o rest ELSE rest

\* mutant: the "Remove badges that no longer apply" filter is left out
determine_badges_keep(rating, review_count, current_badges) ==
    AddNewBadges(1, current_badges, badge_criteria(rating, review_count))

\* backend determine_badges(rating, review_count, current_badges)
determine_badges(rating, review_count, current_badges) ==
    LET crit == badge_criteria(rating, review_count)
        added == AddNewBadges(1, current_badges, crit)
    IN KeepApplying(1, added, crit)

-----------------------------------------------------------------------------
(* Points, RewardSystem.calculate_reward_points *)

WEIGHTS ==
    [rating |-> 100, review |-> 10, consultation |-> 5, response_time |-> 50,
     success_rate |-> 100, profile_quality |-> 50]

\* math.log10(n) in units of 10^-7, rounded down, for n = 1 .. 151
Log10Table ==
    <<
       0, 3010299, 4771212, 6020599, 6989700, 7781512, 8450980,
       9030899, 9542425, 10000000, 10413926, 10791812, 11139433, 11461280,
       11760912, 12041199, 12304489, 12552725, 12787536, 13010299, 13222192,
       13424226, 13617278, 13802112, 13979400, 14149733, 14313637, 14471580,
       14623979, 14771212, 14913616, 15051499, 15185139, 15314789, 15440680,
       15563025, 15682017, 15797835, 15910646, 16020599, 16127838, 16232492,
       16334684, 16434526, 16532125, 16627578, 16720978, 16812412, 16901960,
       16989700, 17075701, 17160033, 17242758, 17323937, 17403626, 17481880,
       17558748, 17634279, 17708520, 17781512, 17853298, 17923916, 17993405,
       18061799, 18129133, 18195439, 18260748, 18325089, 18388490, 18450980,
       18512583, 18573324, 18633228, 18692317, 18750612, 18808135, 18864907,
       18920946, 18976270, 19030899, 19084850, 19138138, 19190780, 19242792,
       19294189, 19344984, 19395192, 19444826, 19493900, 19542425, 19590413,
       19637878, 19684829, 19731278, 19777236, 19822712, 19867717, 19912260,
       19956351, 20000000, 20043213, 20086001, 20128372, 20170333, 20211892,
       20253058, 20293837, 20334237, 20374264, 20413926, 20453229, 20492180,
       20530784, 20569048, 20606978, 20644579, 20681858, 20718820, 20755469,
       20791812, 20827853, 20863598, 20899051, 20934216, 20969100, 21003705,
       21038037, 21072099, 21105897, 21139433, 21172712, 21205739, 21238516,
       21271047, 21303337, 21335389, 21367205, 21398790, 21430148, 21461280,
       21492191, 21522883, 21553360, 21583624, 21613680, 21643528, 21673173,
       21702617, 21731862, 21760912, 21789769
    >>

\* math.log10(n), in units of 10^-7
Log10E7(n) == Log10Table[n]

\* x * y / z rounded down, computed without leaving 32 bits
MulDiv(x, y, z) == (x \div z) * y + ((x % z) * y) \div z

\* review_weight = min(1.0, math.log10(review_count + 1) / 2), in units of
\* 10^-7
review_weight(review_count) ==
    Min(10000000, Log10E7(review_count + 1) \div 2)

\* mutant: the rating block is entered on the rating alone
RatingBlockGuardRatingOnly(d) == GetTruthy(d, "rating")

\* `if lawyer_data.get('rating') and lawyer_data.get('review_count'):`
RatingBlockGuard(d) == GetTruthy(d, "rating") /\ GetTruthy(d, "review_count")

\* the keys each block of calculate_reward_points subscripts (lawyer_data[k],
\* a KeyError when k is absent), with the condition the block runs under
PointsBlocks(d) ==
    { [runs |-> RatingBlockGuard(d), reads |-> {"rating", "review_count"}],
      [runs |-> GetTruthy(d, "review_count"), reads |-> {"review_count"}],
      [runs |-> GetTruthy(d, "consultations_completed"),
       reads |-> {"consultations_completed"}],
      [runs |-> GetNotNone(d, "avg_response_time_minutes"),
       reads |-> {"avg_response_time_minutes"}],
      [runs |-> GetNotNone(d, "success_rate"), reads |-> {"success_rate"}],
      [runs |-> GetNotNone(d, "profile_completion"),
       reads |-> {"profile_completion"}],
      [runs |-> GetTruthy(d, "days_active"), reads |-> {"days_active"}] }

\* some block that runs subscripts a key that is absent
PointsKeyError(d) ==
    \E b \in PointsBlocks(d) : b.runs /\ ~(b.reads \subseteq DOMAIN d)

\* The running sum `points` is kept in units of 10^-5 point.  rating is in
\* tenths, so rating / 5.0 is rating / 50; rates are in hundredths.

\* WEIGHTS['rating'] * rating_factor * review_weight
RatingPoints(d) ==
    IF RatingBlockGuard(d)
    THEN MulDiv(review_weight(Get(d, "review_count", 0)),
                WEIGHTS.rating * Get(d, "rating", 0), 5000)
    ELSE 0

ReviewPoints(d) ==
    IF GetTruthy(d, "review_count")
    THEN d.review_count * WEIGHTS.review * 100000 ELSE 0

ConsultationPoints(d) ==
    IF GetTruthy(d, "consultations_completed")
    THEN d.consultations_completed * WEIGHTS.consultation * 100000 ELSE 0

\* mutant: slower responses earn more, response_factor = min(1, hours / 24)
ResponsePointsFlipped(d) ==
    IF GetNotNone(d, "avg_response_time_minutes")
       /\ d.avg_response_time_minutes <= 24 * 60
    THEN MulDiv(WEIGHTS.response_time * 100000,
                Min(24 * 60, d.avg_response_time_minutes), 24 * 60)
    ELSE 0

\* mutant: neither the 24 hour cap nor max(0, ...), response_factor =
\* 1 - hours / 24 for every response time
ResponsePointsUncapped(d) ==
    IF GetNotNone(d, "avg_response_time_minutes")
    THEN MulDiv(WEIGHTS.response_time * 100000,
                24 * 60 - d.avg_response_time_minutes, 24 * 60)
    ELSE 0

\* response_time_hours = minutes / 60; the block adds points only when
\* response_time_hours <= 24, i.e. minutes <= 1440, and then
\* response_factor = max(0, 1 - hours / 24) = max(0, 1440 - minutes) / 1440
ResponsePoints(d) ==
    IF GetNotNone(d, "avg_response_time_minutes")
       /\ d.avg_response_time_minutes <= 24 * 60
    THEN MulDiv(WEIGHTS.response_time * 100000,
                Max(0, 24 * 60 - d.avg_response_time_minutes), 24 * 60)
    ELSE 0

SuccessPoints(d) ==
    IF GetNotNone(d, "success_rate")
    THEN WEIGHTS.success_rate * d.success_rate * 1000 ELSE 0

ProfilePoints(d) ==
    IF GetNotNone(d, "profile_completion")
    THEN WEIGHTS.profile_quality * d.profile_completion * 1000 ELSE 0

\* points *= 1 + min(1.0, days_active / 730) * 0.2:
\* p * (1 + min(730, days_active) / 3650)
ActivityBonus(p, d) ==
    IF GetTruthy(d, "days_active")
    THEN p + MulDiv(p, Min(730, d.days_active), 3650)
    ELSE p

\* RewardSystem.calculate_reward_points: int(points), or a KeyError
calculate_reward_points(lawyer_data) ==
    LET sum == RatingPoints(lawyer_data) + ReviewPoints(lawyer_data)
               + ConsultationPoints(lawyer_data) + ResponsePoints(lawyer_data)
               + SuccessPoints(lawyer_data) + ProfilePoints(lawyer_data)
    IN [raised |-> PointsKeyError(lawyer_data),
        points |-> ActivityBonus(sum, lawyer_data) \div 100000]

-----------------------------------------------------------------------------
(* Search boost, RewardSystem.calculate_search_boost *)

\* tenths
tier_boosts == [standard |-> 10, silver |-> 12, gold |-> 15, platinum |-> 20]

premium_badges == <<"Top Rated", "Client Favorite", "Perfect Score">>

\* round(x, 2) of a value given in thousandths, in hundredths: to the nearest,
\* a tie to the even neighbour.  The inputs of the model never produce a tie,
\* where the binary representation of the float would decide.
Round2(thousandths) ==
    LET q == thousandths \div 10
        r == thousandths % 10
    IN IF r > 5 \/ (r = 5 /\ q % 2 = 1) THEN q + 1 ELSE q

CountIn(badges, names) ==
    Cardinality({i \in DOMAIN badges : badges[i] \in ToSet(names)})

\* mutant: the per-badge boost is not capped at 0.5
calculate_search_boost_uncapped(lawyer_tier, badges, recency_factor) ==
    LET base_boost == Get(tier_boosts, lawyer_tier, 10)
        badge_boost == Len(badges)
        premium_boost == CountIn(badges, premium_badges)
    IN Round2((base_boost + badge_boost + premium_boost) * recency_factor)

\* mutant: the standard tier carries no base boost
calculate_search_boost_nobase(lawyer_tier, badges, recency_factor) ==
    LET base_boost == IF lawyer_tier = "standard" THEN 0
                      ELSE Get(tier_boosts, lawyer_tier, 10)
        badge_boost == Min(5, Len(badges))
        premium_boost == CountIn(badges, premium_badges)
    IN Round2((base_boost + badge_boost + premium_boost) * recency_factor)

\* RewardSystem.calculate_search_boost, in hundredths; the three boosts are
\* in tenths and recency_factor in hundredths, their product in thousandths
calculate_search_boost(lawyer_tier, badges, recency_factor) ==
    LET base_boost == Get(tier_boosts, lawyer_tier, 10)
        badge_boost == Min(5, Len(badges))
        premium_boost == CountIn(badges, premium_badges)
    IN Round2((base_boost + badge_boost + premium_boost) * recency_factor)

-----------------------------------------------------------------------------
(* Orchestration, RewardSystem.process_lawyer_rewards *)

\* mutant: the boost is computed from the badges held before the run
process_lawyer_rewards_held_badges(self_db, lawyer_data) ==
    LET p == calculate_reward_points(lawyer_data)
        tier == determine_reward_tier(p.points,
                                      Get(lawyer_data, "rating", 0),
                                      Get(lawyer_data, "review_count", 0))
        eligible_badges == check_badge_eligibility(self_db, lawyer_data)
        search_boost == calculate_search_boost(
                            tier, Get(lawyer_data, "badges", <<>>),
                            Get(lawyer_data, "recency_factor", 100))
    IN [raised |-> p.raised,
        reward_points |-> p.points,
        reward_tier |-> tier,
        badges |-> eligible_badges,
        search_boost |-> search_boost]

\* the dict reward_data the method returns, without its last_updated
\* timestamp (the action adds it), or the KeyError of calculate_reward_points
process_lawyer_rewards(self_db, lawyer_data) ==
    LET p == calculate_reward_points(lawyer_data)
        tier == determine_reward_tier(p.points,
                                      Get(lawyer_data, "rating", 0),
                                      Get(lawyer_data, "review_count", 0))
        eligible_badges == check_badge_eligibility(self_db, lawyer_data)
        search_boost == calculate_search_boost(
                            tier, eligible_badges,
                            Get(lawyer_data, "recency_factor", 100))
    IN [raised |-> p.raised,
        reward_points |-> p.points,
        reward_tier |-> tier,
        badges |-> eligible_badges,
        search_boost |-> search_boost]

\* _record_tier_change: the history_entry it builds (created_at left out);
\* nothing without a db connection
record_tier_change(self_db, old_tier, new_tier, points) ==
    IF ~self_db THEN <<>>
    ELSE <<[event_type |-> "tier_change", previous_tier |-> old_tier,
            new_tier |-> new_tier, points |-> points]>>

\* _record_badge_earned: the history_entry it builds (created_at left out);
\* nothing without a db connection
record_badge_earned(self_db, badge) ==
    IF ~self_db THEN <<>>
    ELSE <<[event_type |-> "badge_earned", badge_earned |-> badge]>>

\* `for badge in new_badges: self._record_badge_earned(lawyer_id, badge)`,
\* new_badges = [badge for badge in eligible_badges
\*               if badge not in current_badges]
RECURSIVE RecordNewBadges(_, _, _, _)
RecordNewBadges(i, self_db, eligible_badges, current_badges) ==
    IF i > Len(eligible_badges) THEN <<>>
    ELSE (IF eligible_badges[i] \notin ToSet(current_badges)
          THEN record_badge_earned(self_db, eligible_badges[i])
          ELSE <<>>)
         \o RecordNewBadges(i + 1, self_db, eligible_badges, current_badges)

\* mutant: an entry for every eligible badge, held before or not
process_history_every_badge(self_db, lawyer_data, reward_data) ==
    IF reward_data.raised \/ ~self_db THEN <<>>
    ELSE LET current_tier == Get(lawyer_data, "reward_tier", "standard")
         IN (IF reward_data.reward_tier # current_tier
             THEN record_tier_change(self_db, current_tier,
                                     reward_data.reward_tier,
                                     reward_data.reward_points)
             ELSE <<>>)
            \o RecordNewBadges(1, self_db, reward_data.badges, <<>>)

\* the `if self.db is not None:` block of process_lawyer_rewards: the history
\* entries built, in order (_update_lawyer_rewards does nothing)
process_history(self_db, lawyer_data, reward_data) ==
    IF reward_data.raised \/ ~self_db THEN <<>>
    ELSE LET current_tier == Get(lawyer_data, "reward_tier", "standard")
             current_badges == Get(lawyer_data, "badges", <<>>)
         IN (IF reward_data.reward_tier # current_tier
             THEN record_tier_change(self_db, current_tier,
                                     reward_data.reward_tier,
                                     reward_data.reward_points)
             ELSE <<>>)
            \o RecordNewBadges(1, self_db, reward_data.badges, current_badges)

-----------------------------------------------------------------------------
(* Input domains *)

MaxTierReviewCount == 31

\* points around every threshold
TierPoints == {0, 1, 149, 150, 151, 299, 300, 301, 499, 500, 501, 900}

\* ratings (tenths) around every threshold
TierRatings == {0, 10, 34, 35, 36, 39, 40, 41, 44, 45, 46, 50}

TierReviewCounts == 0 .. MaxTierReviewCount

\* longest list of previously held badges
MaxCurrentBadges == 2

\* previously held badges: three the backend knows, one it does not
PriorBadgeNames == {"Top Rated", "Rising Star", "Experienced Pro", "Quick Responder"}

RECURSIVE SeqsUpTo(_, _)
SeqsUpTo(S, n) ==
    IF n = 0 THEN {<<>>}
    ELSE LET shorter == SeqsUpTo(S, n - 1) IN
         shorter \cup {Append(q, x) : q \in shorter, x \in S}

CurrentBadgeLists == SeqsUpTo(PriorBadgeNames, MaxCurrentBadges)

\* ratings (tenths) and review counts on both sides of every badge threshold
BadgeRatings == {0, 39, 40, 44, 45, 47, 48, 49, 50}
BadgeReviewCounts == {0, 2, 3, 4, 5, 9, 10, 14, 15, 16, 19, 20, 29, 30}

\* snapshots for check_badge_eligibility: every subset of the metrics the
\* badge criteria read, with values on both sides of each threshold
BadgeSnapshots ==
    { Dict([rating |-> r, review_count |-> n, days_active |-> d,
            response_rate |-> rr, avg_response_time_minutes |-> m,
            total_inquiries |-> q, success_rate |-> sr,
            cases_completed |-> c, badges |-> b]) :
        r \in Opt({39, 40, 45, 48, 50}),
        n \in Opt({3, 4, 5, 10, 15, 16, 20, 30}),
        d \in Opt({180, 181}),
        rr \in Opt({89, 90}),
        m \in Opt({240, 241}),
        q \in Opt({14, 15}),
        sr \in Opt({74, 75}),
        c \in Opt({9, 10}),
        b \in Opt({<<"Rising Star", "Top Rated">>}) }

\* snapshots for calculate_reward_points: every subset of the metrics it
\* reads, with zero, boundary and ordinary values
PointsSnapshots ==
    { Dict([rating |-> r, review_count |-> n, consultations_completed |-> k,
            avg_response_time_minutes |-> m, success_rate |-> sr,
            profile_completion |-> pc, days_active |-> d]) :
        r \in Opt({0, 35, 48, 50}),
        n \in Opt({0, 1, 42, 99, 120}),
        k \in Opt({0, 38}),
        m \in Opt({0, 45, 1439, 1440, 1441, 1500}),
        sr \in Opt({0, 87, 100}),
        pc \in Opt({0, 95}),
        d \in Opt({0, 365, 730, 800}) }

\* recency factors (hundredths), below and above 1.0; all even, so that no
\* product with a sum of tenths lies half-way between two hundredths
RecencyFactors == {50, 98, 100, 104, 110, 120}

\* the lists of distinct badges, in catalog order
RECURSIVE BadgeListsFrom(_)
BadgeListsFrom(i) ==
    IF i > Len(BadgeOrder) THEN {<<>>}
    ELSE LET rest == BadgeListsFrom(i + 1) IN
         rest \cup {<<BadgeOrder[i]>> \o q : q \in rest}

BadgeLists == BadgeListsFrom(1)

\* snapshots for process_lawyer_rewards
ProcessSnapshots ==
    { Dict([rating |-> r, review_count |-> n,
            avg_response_time_minutes |-> m, success_rate |-> sr,
            profile_completion |-> pc, days_active |-> d,
            response_rate |-> rr,
            consultations_completed |-> act[1], total_inquiries |-> act[2],
            cases_completed |-> act[3],
            recency_factor |-> rf,
            reward_tier |-> prior[1], badges |-> prior[2]]) :
        r \in Opt({45, 50}),
        n \in Opt({0, 10, 15, 20, 30, 42}),
        m \in Opt({45, 1500}),
        sr \in Opt({87}),
        pc \in Opt({95}),
        d \in Opt({100, 365}),
        rr \in Opt({93}),
        act \in {<<<<>>, <<>>, <<>>>>, <<<<38>>, <<76>>, <<32>>>>,
                 <<<<0>>, <<14>>, <<9>>>>},
        rf \in Opt({50, 110}),
        prior \in {<<<<>>, <<>>>>, <<<<"gold">>, <<<<"Top Rated">>>>>>,
                   <<<<"standard">>, <<<<>>>>>>} }

\* two readings of the clock (datetime.utcnow()), an earlier and a later one
Clock == {1, 2}

\* values of the 'badges' key (badges held before the run) of a snapshot
HeldBadgeLists ==
    {<<>>, <<"Rising Star", "Top Rated">>, <<"Experienced Pro">>,
     <<"Top 10%", "Quick Responder", "Case Winner">>}

-----------------------------------------------------------------------------
(* Backend service: the stores and the post_review requests *)

\* concurrent post_review requests
MaxRequests == 2
Requests == 1 .. MaxRequests

\* the lawyer the reviews are posted for
Lawyers == {"L1"}

\* a lawyer document that is not in the users collection
NoLawyer ==
    [exists |-> FALSE, rating |-> 0, review_count |-> 0, badges |-> <<>>,
     reward_points |-> 0, reward_tier |-> "standard"]

\* register(), role 'lawyer': the reward fields of the new document
NewLawyer ==
    [exists |-> TRUE, rating |-> 0, review_count |-> 0, badges |-> <<>>,
     reward_points |-> 0, reward_tier |-> "standard"]

NoUsers == [l \in Lawyers |-> NoLawyer]

\* the users a token can stand for: two clients and one that is no client
Callers ==
    { [id |-> "c1", role |-> "client"], [id |-> "c2", role |-> "client"],
      [id |-> "u3", role |-> "lawyer"] }

\* values of data.get('rating') of the JSON body: absent (None), a string, the
\* boolean true (Python True, which is the int 1), and numbers; v is the
\* numeric value, in whole stars
RatingInputs ==
    { [type |-> "null", v |-> 0], [type |-> "string", v |-> 0],
      [type |-> "bool", v |-> 1], [type |-> "number", v |-> 0],
      [type |-> "number", v |-> 3], [type |-> "number", v |-> 5],
      [type |-> "number", v |-> 6] }

\* `not rating`: None, 0 and False are falsy (the string is not empty)
Falsy(rating) ==
    \/ rating.type = "null"
    \/ rating.type \in {"number", "bool"} /\ rating.v = 0

\* isinstance(rating, (int, float)); bool is a subclass of int
IsIntOrFloat(rating) == rating.type \in {"number", "bool"}

\* `not rating or not isinstance(rating, (int, float)) or rating < 1 or
\* rating > 5`
RatingRejected(rating) ==
    \/ Falsy(rating)
    \/ ~IsIntOrFloat(rating)
    \/ rating.v < 1
    \/ rating.v > 5

\* a request that has not arrived, and the locals of one that has returned
IdleRequest ==
    [pc |-> "idle", status |-> 0,
     current_user |-> [id |-> "", role |-> ""],
     rating |-> [type |-> "null", v |-> 0],
     review_result |-> 0, review_count |-> 0, new_avg_rating |-> 0,
     reward_points |-> 0, new_tier |-> "standard", badges |-> <<>>]

\* the documents reviews.find({'lawyer_id': lawyer_id}) yields
ReviewsOf(lawyer_id) == {rv \in reviews : rv.lawyer_id = lawyer_id}

RECURSIVE SumOfRatings(_)
SumOfRatings(S) ==
    IF S = {} THEN 0
    ELSE LET rv == CHOOSE x \in S : TRUE
         IN rv.rating + SumOfRatings(S \ {rv})

\* round(total_rating / review_count, 1) if review_count > 0 else 0, in
\* tenths; total_rating in whole stars.  A tie is an exact binary fraction
\* for the counts the model reaches and goes to the even neighbour.
NewAvgRating(total_rating, review_count) ==
    IF review_count > 0
    THEN LET q == (10 * total_rating) \div review_count
             r == (10 * total_rating) % review_count
         IN IF 2 * r > review_count \/ (2 * r = review_count /\ q % 2 = 1)
            THEN q + 1 ELSE q
    ELSE 0

\* backend calculate_reward_points(rating, review_count):
\* int(review_count * 10 * (rating / 5.0)), rating in tenths
backend_calculate_reward_points(rating, review_count) ==
    (review_count * 10 * rating) \div 50

\* the request returns: its locals are gone, status and body remain
Return(req, status) ==
    [IdleRequest EXCEPT !.pc = "done", !.status = status,
                        !.current_user = req.current_user,
                        !.rating = req.rating,
                        !.review_result = req.review_result]

-----------------------------------------------------------------------------
(* Backend operations *)

\* the lawyer document post_review and update_lawyer_rewards leave behind
\* when the requests that inserted the reviews S ran one after the other
LawyerAfter(S) ==
    LET review_count == Cardinality(S)
        rating == NewAvgRating(SumOfRatings(S), review_count)
        reward_points == backend_calculate_reward_points(rating, review_count)
    IN [exists |-> TRUE, rating |-> rating, review_count |-> review_count,
        badges |-> determine_badges(rating, review_count, <<>>),
        reward_points |-> reward_points,
        reward_tier |-> backend_determine_reward_tier(reward_points, rating,
                                                      review_count)]

\* the reviews earlier requests left in the store: none, or two five-star
\* reviews of other clients
EarlierReviews ==
    { {},
      { [id |-> 0 - 1, user_id |-> "c8", lawyer_id |-> "L1", rating |-> 5],
        [id |-> 0 - 2, user_id |-> "c9", lawyer_id |-> "L1", rating |-> 5] } }

\* an empty users collection, or the lawyer registered and reviewed by earlier
\* requests that have all returned; no request of this run has arrived
BackendInit ==
    /\ db = FALSE
    /\ call = "init"
    /\ args = EmptyDict
    /\ ret = EmptyDict
    /\ history = <<>>
    /\ reviews \in EarlierReviews
    /\ users = IF reviews = {} THEN NoUsers
               ELSE [l \in Lawyers |-> LawyerAfter(ReviewsOf(l))]
    /\ requests = [r \in Requests |-> IdleRequest]

engine_vars == <<db, call, args, ret, history>>

\* register() with role 'lawyer' (a second registration with the same email
\* is answered 409 and inserts nothing)
Register(l) ==
    /\ ~users[l].exists
    /\ users' = [users EXCEPT ![l] = NewLawyer]
    /\ UNCHANGED <<reviews, requests, engine_vars>>

\* post_review up to users.find_one: the role check (403), the rating
\* validation (400) and the lookup of the lawyer (404)
PostReview(r, l) ==
    /\ requests[r].pc = "idle"
    /\ \E current_user \in Callers, rating \in RatingInputs :
        LET req == [requests[r] EXCEPT !.current_user = current_user,
                                       !.rating = rating]
        IN requests' = [requests EXCEPT ![r] =
               IF current_user.role # "client" THEN Return(req, 403)
               ELSE IF RatingRejected(rating) THEN Return(req, 400)
               ELSE IF ~users[l].exists THEN Return(req, 404)
               ELSE [req EXCEPT !.pc = "find_existing"]]
    /\ UNCHANGED <<users, reviews, engine_vars>>

\* reviews.find_one({'user_id', 'lawyer_id'}) and the 409 answer
FindExistingReview(r, l) ==
    /\ requests[r].pc = "find_existing"
    /\ requests' = [requests EXCEPT ![r] =
           IF \E rv \in reviews : /\ rv.user_id = requests[r].current_user.id
                                  /\ rv.lawyer_id = l
           THEN Return(requests[r], 409)
           ELSE [requests[r] EXCEPT !.pc = "insert"]]
    /\ UNCHANGED <<users, reviews, engine_vars>>

\* reviews.insert_one(new_review); the request number stands for inserted_id
InsertReview(r, l) ==
    /\ requests[r].pc = "insert"
    /\ reviews' = reviews \cup
           {[id |-> r, user_id |-> requests[r].current_user.id,
             lawyer_id |-> l, rating |-> requests[r].rating.v]}
    /\ requests' = [requests EXCEPT ![r].review_result = r, ![r].pc = "count"]
    /\ UNCHANGED <<users, engine_vars>>

\* reviews.count_documents({'lawyer_id': lawyer_id}); the find() of the line
\* before only builds a cursor and reads nothing yet
CountReviews(r, l) ==
    /\ requests[r].pc = "count"
    /\ requests' = [requests EXCEPT
           ![r].review_count = Cardinality(ReviewsOf(l)), ![r].pc = "sum"]
    /\ UNCHANGED <<users, reviews, engine_vars>>

\* sum(review['rating'] for review in lawyer_reviews): the cursor reads the
\* collection now; then new_avg_rating
SumRatings(r, l) ==
    /\ requests[r].pc = "sum"
    /\ requests' = [requests EXCEPT
           ![r].new_avg_rating = NewAvgRating(SumOfRatings(ReviewsOf(l)),
                                              requests[r].review_count),
           ![r].pc = "update_rating"]
    /\ UNCHANGED <<users, reviews, engine_vars>>

\* users.update_one(..., {'$set': {'rating', 'review_count'}})
UpdateRating(r, l) ==
    /\ requests[r].pc = "update_rating"
    /\ users' = [users EXCEPT ![l].rating = requests[r].new_avg_rating,
                              ![l].review_count = requests[r].review_count]
    /\ requests' = [requests EXCEPT ![r].pc = "find_lawyer"]
    /\ UNCHANGED <<reviews, engine_vars>>

\* update_lawyer_rewards up to its update: users.find_one, then the points,
\* the tier and the badges from the badges just read
FindLawyer(r, l) ==
    /\ requests[r].pc = "find_lawyer"
    /\ LET req == requests[r]
           reward_points == backend_calculate_reward_points(
                                req.new_avg_rating, req.review_count)
       IN requests' = [requests EXCEPT ![r] =
              IF ~users[l].exists THEN Return(req, 201)
              ELSE [req EXCEPT
                      !.reward_points = reward_points,
                      !.new_tier = backend_determine_reward_tier(
                                       reward_points, req.new_avg_rating,
                                       req.review_count),
                      !.badges = determine_badges(req.new_avg_rating,
                                                  req.review_count,
                                                  users[l].badges),
                      !.pc = "update_rewards"]]
    /\ UNCHANGED <<users, reviews, engine_vars>>

\* users.update_one(..., {'$set': {'reward_points', 'reward_tier',
\* 'badges'}}) and the 201 answer
UpdateRewards(r, l) ==
    /\ requests[r].pc = "update_rewards"
    /\ users' = [users EXCEPT ![l].reward_points = requests[r].reward_points,
                              ![l].reward_tier = requests[r].new_tier,
                              ![l].badges = requests[r].badges]
    /\ requests' = [requests EXCEPT ![r] = Return(requests[r], 201)]
    /\ UNCHANGED <<reviews, engine_vars>>

BackendNext ==
    \E l \in Lawyers :
        \/ Register(l)
        \/ \E r \in Requests :
            \/ PostReview(r, l)
            \/ FindExistingReview(r, l)
            \/ InsertReview(r, l)
            \/ CountReviews(r, l)
            \/ SumRatings(r, l)
            \/ UpdateRating(r, l)
            \/ FindLawyer(r, l)
            \/ UpdateRewards(r, l)

BackendSpec == BackendInit /\ [][BackendNext]_vars

-----------------------------------------------------------------------------
(* Operations *)

\* a freshly constructed RewardSystem, with or without a db connection, on
\* which no operation has been invoked yet; each behaviour is one invocation
Init ==
    /\ db \in BOOLEAN
    /\ call = "init"
    /\ args = EmptyDict
    /\ ret = EmptyDict
    /\ history = <<>>
    /\ users = NoUsers
    /\ reviews = {}
    /\ requests = [r \in Requests |-> IdleRequest]

\* determineTier: both implementations on the same arguments
DetermineTier ==
    /\ call = "init"
    /\ \E points \in TierPoints, rating \in TierRatings,
          review_count \in TierReviewCounts :
        /\ call' = "determine_reward_tier"
        /\ args' = [points |-> points, rating |-> rating,
                    review_count |-> review_count]
        /\ ret' = [engine |-> determine_reward_tier(points, rating, review_count),
                   backend |-> backend_determine_reward_tier(points, rating,
                                                             review_count)]
        /\ UNCHANGED <<db, history, users, reviews, requests>>

\* evaluateBadges: RewardSystem.check_badge_eligibility on one snapshot
CheckBadgeEligibility ==
    /\ call = "init"
    /\ \E lawyer_data \in BadgeSnapshots :
        /\ call' = "check_badge_eligibility"
        /\ args' = [lawyer_data |-> lawyer_data]
        /\ ret' = [badges |-> check_badge_eligibility(db, lawyer_data)]
        /\ UNCHANGED <<db, history, users, reviews, requests>>

\* the backend's determine_badges
DetermineBadges ==
    /\ call = "init"
    /\ \E rating \in BadgeRatings, review_count \in BadgeReviewCounts,
          current_badges \in CurrentBadgeLists :
        /\ call' = "determine_badges"
        /\ args' = [rating |-> rating, review_count |-> review_count,
                    current_badges |-> current_badges]
        /\ ret' = [badges |-> determine_badges(rating, review_count, current_badges)]
        /\ UNCHANGED <<db, history, users, reviews, requests>>

\* computePoints: RewardSystem.calculate_reward_points on one snapshot
CalculateRewardPoints ==
    /\ call = "init"
    /\ \E lawyer_data \in PointsSnapshots :
        /\ call' = "calculate_reward_points"
        /\ args' = [lawyer_data |-> lawyer_data]
        /\ ret' = calculate_reward_points(lawyer_data)
        /\ UNCHANGED <<db, history, users, reviews, requests>>

\* computeSearchBoost: RewardSystem.calculate_search_boost; the recency
\* factor is optional (its default is 1.0)
CalculateSearchBoost ==
    /\ call = "init"
    /\ \E lawyer_tier \in Tiers, badges \in BadgeLists,
          rf \in Opt(RecencyFactors) :
        /\ call' = "calculate_search_boost"
        /\ args' = [lawyer_tier |-> lawyer_tier, badges |-> badges,
                    recency_factor |-> IF rf = <<>> THEN 100 ELSE rf[1]]
        /\ ret' = [search_boost |->
                      calculate_search_boost(lawyer_tier, badges,
                                             IF rf = <<>> THEN 100 ELSE rf[1])]
        /\ UNCHANGED <<db, history, users, reviews, requests>>

\* processRewards: RewardSystem.process_lawyer_rewards on one snapshot;
\* `now` is the value datetime.utcnow() returns
ProcessLawyerRewards ==
    /\ call = "init"
    /\ \E lawyer_data \in ProcessSnapshots, now \in Clock :
        /\ call' = "process_lawyer_rewards"
        /\ args' = [lawyer_data |-> lawyer_data]
        /\ ret' = LET r == process_lawyer_rewards(db, lawyer_data)
                  IN [raised |-> r.raised,
                      reward_points |-> r.reward_points,
                      reward_tier |-> r.reward_tier,
                      badges |-> r.badges,
                      search_boost |-> r.search_boost,
                      last_updated |-> now]
        /\ history' = history \o
                process_history(db, lawyer_data,
                                process_lawyer_rewards(db, lawyer_data))
        /\ UNCHANGED <<db, users, reviews, requests>>

Next ==
    \/ DetermineTier
    \/ CheckBadgeEligibility
    \/ DetermineBadges
    \/ CalculateRewardPoints
    \/ CalculateSearchBoost
    \/ ProcessLawyerRewards

Spec == Init /\ [][Next]_vars

-----------------------------------------------------------------------------
(* Claims *)

TierRank(t) ==
    CASE t = "standard" -> 0 [] t = "silver" -> 1
      [] t = "gold" -> 2 [] t = "platinum" -> 3

\* the threshold table as the specification states it: (points, rating in
\* tenths, review count)
StatedThreshold(t) ==
    CASE t = "standard" -> <<0, 0, 0>>
      [] t = "silver" -> <<150, 35, 10>>
      [] t = "gold" -> <<300, 40, 20>>
      [] t = "platinum" -> <<500, 45, 30>>

StatedQualifies(t, a) ==
    /\ a.points >= StatedThreshold(t)[1]
    /\ a.rating >= StatedThreshold(t)[2]
    /\ a.review_count >= StatedThreshold(t)[3]

HighestQualifying(a) ==
    CHOOSE t \in Tiers :
        /\ StatedQualifies(t, a)
        /\ \A u \in Tiers : StatedQualifies(u, a) => TierRank(u) <= TierRank(t)

\* C1: determineTier returns the highest tier (platinum > gold > silver >
\* standard) whose points, rating and review-count thresholds are all met,
\* standard when no higher tier qualifies, and the engine's and the backend's
\* determine_reward_tier return that same tier.
C1_HighestQualifyingTier ==
    call = "determine_reward_tier" =>
        /\ ret.engine = HighestQualifying(args)
        /\ ret.backend = HighestQualifying(args)

\* a call where gold is decided by the review-count threshold alone
C1_Witness ==
    /\ call = "determine_reward_tier"
    /\ args.points = 500 /\ args.rating = 50 /\ args.review_count = 20
    /\ ret.engine = "gold" /\ ret.backend = "gold"

-----------------------------------------------------------------------------
(* Badge claims *)

Has(d, k) == k \in DOMAIN d

\* the snapshot with its 'badges' key replaced (o = <<>>: removed)
WithHeldBadges(d, o) ==
    [k \in (DOMAIN d \ {"badges"}) \cup (IF o = <<>> THEN {} ELSE {"badges"}) |->
        IF k = "badges" THEN o[1] ELSE d[k]]

\* C2: evaluateBadges grants Rising Star only when review_count < 15; a
\* snapshot with review_count = 15 is never granted Rising Star.
C2_RisingStarExclusiveUpperBound ==
    (call = "check_badge_eligibility" /\ "Rising Star" \in ToSet(ret.badges)) =>
        /\ Has(args.lawyer_data, "review_count")
        /\ args.lawyer_data.review_count < 15

\* C3: with no population-ranking collaborator (no db connection) the badge
\* set returned by evaluateBadges never contains "Top 10%".
C3_Top10NeverGrantedInIsolation ==
    (call = "check_badge_eligibility" /\ ~db) => "Top 10%" \notin ToSet(ret.badges)

\* C5: the badge set is recomputed in full from the current metrics: an
\* evaluation with the same metrics and any other previously held badge list
\* returns the same set of badges, and no returned badge is there only because
\* it was held before (its criteria hold on the current metrics).  For
\* RewardSystem.check_badge_eligibility and for the backend's determine_badges.
C5_BadgesRecomputedInFull ==
    /\ call = "check_badge_eligibility" =>
        /\ \A o \in Opt(HeldBadgeLists) :
              ToSet(check_badge_eligibility(db, WithHeldBadges(args.lawyer_data, o)))
                  = ToSet(ret.badges)
        /\ \A b \in ToSet(Get(args.lawyer_data, "badges", <<>>)) :
              b \in ToSet(ret.badges) =>
                  criteria_met(db, b, WithHeldBadges(args.lawyer_data, <<>>))
    /\ call = "determine_badges" =>
        /\ \A cb \in CurrentBadgeLists :
              ToSet(determine_badges(args.rating, args.review_count, cb))
                  = ToSet(ret.badges)
        /\ \A b \in ToSet(ret.badges) :
              /\ b \in ToSet(BackendBadgeOrder)
              /\ badge_criteria(args.rating, args.review_count)[b]

\* the backend drops a held badge whose criteria no longer hold (and one it
\* does not know) and adds the badges now earned
C5_Witness ==
    /\ call = "determine_badges"
    /\ args.current_badges = <<"Rising Star", "Quick Responder">>
    /\ args.rating = 50 /\ args.review_count = 30
    /\ ret.badges = <<"Top Rated", "Client Favorite", "Experienced Pro",
                      "Perfect Score">>

\* the catalog as the specification states it, absent metrics failing
StatedEarned(badge, d) ==
    CASE badge = "Top Rated" ->
            /\ Has(d, "rating") /\ d.rating >= 48
            /\ Has(d, "review_count") /\ d.review_count >= 10
      [] badge = "Client Favorite" ->
            /\ Has(d, "rating") /\ d.rating >= 45
            /\ Has(d, "review_count") /\ d.review_count >= 20
      [] badge = "Experienced Pro" ->
            Has(d, "review_count") /\ d.review_count >= 30
      [] badge = "Perfect Score" ->
            /\ Has(d, "rating") /\ d.rating = 50
            /\ Has(d, "review_count") /\ d.review_count >= 3
      [] badge = "Quick Responder" ->
            /\ Has(d, "response_rate") /\ d.response_rate >= 90
            /\ Has(d, "avg_response_time_minutes")
            /\ d.avg_response_time_minutes <= 4 * 60
            /\ Has(d, "total_inquiries") /\ d.total_inquiries >= 15
      [] badge = "Case Winner" ->
            /\ Has(d, "success_rate") /\ d.success_rate >= 75
            /\ Has(d, "cases_completed") /\ d.cases_completed >= 10

\* C6: each of Top Rated, Client Favorite, Experienced Pro, Perfect Score,
\* Quick Responder and Case Winner is in the result of evaluateBadges if and
\* only if every predicate of that badge in the catalog holds on the snapshot.
C6_BadgeIffAllPredicates ==
    call = "check_badge_eligibility" =>
        \A badge \in {"Top Rated", "Client Favorite", "Experienced Pro",
                      "Perfect Score", "Quick Responder", "Case Winner"} :
            (badge \in ToSet(ret.badges)) <=> StatedEarned(badge, args.lawyer_data)

\* rating 5.0 with 3 reviews and nothing else: Perfect Score and no
\* Experienced Pro
C6_Witness ==
    /\ call = "check_badge_eligibility"
    /\ args.lawyer_data = [rating |-> 50, review_count |-> 3]
    /\ "Perfect Score" \in ToSet(ret.badges)
    /\ "Experienced Pro" \notin ToSet(ret.badges)

\* the snapshot field each predicate kind reads
RequiredField(key) ==
    CASE key = "min_rating" -> "rating"
      [] key = "min_reviews" -> "review_count"
      [] key = "max_reviews" -> "review_count"
      [] key = "max_days_registered" -> "days_active"
      [] key = "response_rate" -> "response_rate"
      [] key = "avg_response_time_hours" -> "avg_response_time_minutes"
      [] key = "min_inquiries" -> "total_inquiries"
      [] key = "success_rate" -> "success_rate"
      [] key = "min_cases" -> "cases_completed"

UniformPredicates ==
    {"min_rating", "min_reviews", "max_reviews", "max_days_registered",
     "response_rate", "avg_response_time_hours", "min_inquiries",
     "success_rate", "min_cases"}

\* C9: a snapshot lacking a field that a predicate of a badge needs is never
\* granted that badge, and that predicate is treated as failed, for
\* lower-bound and upper-bound predicates alike.
C9_MissingFieldFailsPredicate ==
    call = "check_badge_eligibility" =>
        \A badge \in ToSet(BadgeOrder) :
            \A key \in DOMAIN BADGE_CRITERIA[badge] \cap UniformPredicates :
                ~Has(args.lawyer_data, RequiredField(key)) =>
                    /\ badge \notin ToSet(ret.badges)
                    /\ CriterionFails(db, key, BADGE_CRITERIA[badge],
                                      args.lawyer_data)

-----------------------------------------------------------------------------
(* Search-boost claims *)

StatedTierBase(t) ==
    CASE t = "standard" -> 100 [] t = "silver" -> 120
      [] t = "gold" -> 150 [] t = "platinum" -> 200

\* (tier_base + min(0.5, 0.1 |badges|) + 0.1 |badges /\ premium|) *
\* recency_factor, rounded to hundredths
StatedBoost(t, badges, recency_factor) ==
    LET B == ToSet(badges)
        sum == StatedTierBase(t) + Min(50, 10 * Cardinality(B))
               + 10 * Cardinality(B \cap {"Top Rated", "Client Favorite",
                                          "Perfect Score"})
    IN (sum * recency_factor + 50) \div 100

\* C7: computeSearchBoost returns (tier_base[tier] + min(0.5, 0.1 * |badges|)
\* + 0.1 * |badges /\ {Top Rated, Client Favorite, Perfect Score}|) *
\* recency_factor rounded to 2 decimals, with tier_base 1.0 / 1.2 / 1.5 / 2.0;
\* the per-badge part is capped at 0.5 from five badges on, and platinum with
\* exactly the three premium badges and recency_factor 1.0 gives 2.6.
C7_BoostFormula ==
    call = "calculate_search_boost" =>
        /\ ret.search_boost =
              StatedBoost(args.lawyer_tier, args.badges, args.recency_factor)
        /\ (/\ args.lawyer_tier = "platinum"
            /\ ToSet(args.badges) = {"Top Rated", "Client Favorite", "Perfect Score"}
            /\ args.recency_factor = 100) => ret.search_boost = 260

\* six badges, one of them premium: the per-badge part is 0.5, not 0.6
C7_Witness ==
    /\ call = "calculate_search_boost"
    /\ args.lawyer_tier = "gold"
    /\ args.badges = <<"Top Rated", "Rising Star", "Experienced Pro",
                       "Quick Responder", "Case Winner", "Top 10%">>
    /\ args.recency_factor = 100
    /\ ret.search_boost = 150 + 50 + 10

-----------------------------------------------------------------------------
(* Tier monotonicity *)

\* the snapshot with key k set to v
With(d, k, v) == [x \in DOMAIN d \cup {k} |-> IF x = k THEN v ELSE d[x]]

ProcessReviewCounts == {0, 10, 15, 20, 30, 42}

\* C8: the tier is monotone: for determineTier, raising any one of points,
\* rating or review_count with the other two fixed never yields a lower tier;
\* for processRewards, a larger review_count with every other snapshot field
\* fixed never yields a lower tier.
C8_TierMonotone ==
    /\ call = "determine_reward_tier" =>
        /\ \A p \in TierPoints : p >= args.points =>
              /\ TierRank(determine_reward_tier(p, args.rating, args.review_count))
                    >= TierRank(ret.engine)
              /\ TierRank(backend_determine_reward_tier(p, args.rating,
                                                        args.review_count))
                    >= TierRank(ret.backend)
        /\ \A r \in TierRatings : r >= args.rating =>
              /\ TierRank(determine_reward_tier(args.points, r, args.review_count))
                    >= TierRank(ret.engine)
              /\ TierRank(backend_determine_reward_tier(args.points, r,
                                                        args.review_count))
                    >= TierRank(ret.backend)
        /\ \A n \in TierReviewCounts : n >= args.review_count =>
              /\ TierRank(determine_reward_tier(args.points, args.rating, n))
                    >= TierRank(ret.engine)
              /\ TierRank(backend_determine_reward_tier(args.points, args.rating, n))
                    >= TierRank(ret.backend)
    /\ (call = "process_lawyer_rewards" /\ Has(args.lawyer_data, "review_count")) =>
        \A n \in ProcessReviewCounts : n >= args.lawyer_data.review_count =>
            TierRank(process_lawyer_rewards(
                        db, With(args.lawyer_data, "review_count", n)).reward_tier)
                >= TierRank(ret.reward_tier)

\* a snapshot that is gold with 20 reviews and platinum with 30
C8_Witness ==
    /\ call = "process_lawyer_rewards"
    /\ Has(args.lawyer_data, "review_count")
    /\ args.lawyer_data.review_count = 20
    /\ ret.reward_tier = "gold"
    /\ process_lawyer_rewards(
          db, With(args.lawyer_data, "review_count", 30)).reward_tier = "platinum"

-----------------------------------------------------------------------------
(* Absent metrics *)

\* for each metric, a value that by the formula contributes no points
ZeroContribution ==
    [rating |-> 0, review_count |-> 0, consultations_completed |-> 0,
     avg_response_time_minutes |-> 24 * 60, success_rate |-> 0,
     profile_completion |-> 0, days_active |-> 0]

\* C10: absent optional metrics are never errors: computePoints and
\* processRewards complete without raising whatever subset of the metrics is
\* absent, each absent metric contributes exactly 0 points (the points are
\* those of the snapshot with the metric present at a value that contributes
\* nothing), and the empty snapshot yields 0 points, tier standard.
C10_AbsentMetricsAreNotErrors ==
    /\ call = "calculate_reward_points" =>
        /\ ~ret.raised
        /\ \A k \in DOMAIN ZeroContribution \ DOMAIN args.lawyer_data :
              calculate_reward_points(
                  With(args.lawyer_data, k, ZeroContribution[k])).points
                  = ret.points
        /\ args.lawyer_data = EmptyDict => ret.points = 0
    /\ call = "process_lawyer_rewards" =>
        /\ ~ret.raised
        /\ \A k \in DOMAIN ZeroContribution \ DOMAIN args.lawyer_data :
              process_lawyer_rewards(
                  db, With(args.lawyer_data, k, ZeroContribution[k])).reward_points
                  = ret.reward_points
        /\ args.lawyer_data = EmptyDict =>
              ret.reward_points = 0 /\ ret.reward_tier = "standard"

\* a rating without a review count: no error, and only the success rate
\* contributes
C10_Witness ==
    /\ call = "calculate_reward_points"
    /\ DOMAIN args.lawyer_data = {"rating", "success_rate"}
    /\ args.lawyer_data.rating = 48 /\ args.lawyer_data.success_rate = 87
    /\ ~ret.raised /\ ret.points = 87

-----------------------------------------------------------------------------
(* Points claims *)

\* the snapshot without key k
Without(d, k) == [x \in DOMAIN d \ {k} |-> d[x]]

\* the response times (minutes) of the points snapshots
PointsMinutes == {0, 45, 1439, 1440, 1441, 1500}

\* W_response_time * max(0, 1 - hours / 24) for hours <= 24 and 0 beyond, in
\* whole points (the integer part)
StatedResponsePoints(minutes) ==
    IF minutes <= 24 * 60
    THEN (50 * Max(0, 24 * 60 - minutes)) \div (24 * 60)
    ELSE 0

\* C11: the responsiveness contribution is never negative: a snapshot holding
\* only avg_response_time_minutes scores the integer part of
\* W_response_time * max(0, 1 - hours/24) when hours <= 24 and 0 beyond; at
\* hours = 24 and for every hours > 24 the total is that of the snapshot
\* without the metric; and a larger avg_response_time_minutes with every other
\* field fixed never gives more points.
C11_ResponsivenessNeverNegative ==
    (call = "calculate_reward_points"
     /\ Has(args.lawyer_data, "avg_response_time_minutes")) =>
        LET d == args.lawyer_data
            minutes == d.avg_response_time_minutes
        IN /\ ResponsePoints(d) >= 0
           /\ DOMAIN d = {"avg_response_time_minutes"} =>
                 ret.points = StatedResponsePoints(minutes)
           /\ minutes >= 24 * 60 =>
                 ret.points = calculate_reward_points(
                                  Without(d, "avg_response_time_minutes")).points
           /\ \A slower \in PointsMinutes : slower >= minutes =>
                 calculate_reward_points(
                     With(d, "avg_response_time_minutes", slower)).points
                     <= ret.points

\* a response time just above 24 hours next to a success rate: only the
\* success rate contributes
C11_Witness ==
    /\ call = "calculate_reward_points"
    /\ DOMAIN args.lawyer_data = {"avg_response_time_minutes", "success_rate"}
    /\ args.lawyer_data.avg_response_time_minutes = 24 * 60 + 1
    /\ args.lawyer_data.success_rate = 87
    /\ ret.points = 87

\* C12: for every validated snapshot (rating in [0,5], non-negative counts,
\* rates in [0,1], non-negative response time and days_active) the points
\* computePoints returns and the reward_points of the result of processRewards
\* are >= 0.
C12_PointsNonNegative ==
    /\ call = "calculate_reward_points" => ret.points >= 0
    /\ call = "process_lawyer_rewards" => ret.reward_points >= 0

\* a response time of 25 hours and nothing else: 0 points, not less
C12_Witness ==
    /\ call = "process_lawyer_rewards"
    /\ DOMAIN args.lawyer_data = {"avg_response_time_minutes"}
    /\ args.lawyer_data.avg_response_time_minutes = 1500
    /\ ret.reward_points = 0

-----------------------------------------------------------------------------
(* History events *)

TierChangeEvents == {i \in DOMAIN history : history[i].event_type = "tier_change"}

BadgeEarnedEvents ==
    {i \in DOMAIN history : history[i].event_type = "badge_earned"}

\* the events are exactly the differences against the snapshot's prior state
EventsAreTheDifferences ==
        LET d == args.lawyer_data
            current_tier == Get(d, "reward_tier", "standard")
            current_badges == ToSet(Get(d, "badges", <<>>))
            earned == ToSet(ret.badges) \ current_badges
        IN /\ (TierChangeEvents # {}) <=> (ret.reward_tier # current_tier)
           /\ \A i \in TierChangeEvents :
                 /\ history[i].previous_tier = current_tier
                 /\ history[i].new_tier = ret.reward_tier
                 /\ history[i].points = ret.reward_points
           /\ Cardinality(TierChangeEvents) <= 1
           /\ {history[i].badge_earned : i \in BadgeEarnedEvents} = earned
           /\ Cardinality(BadgeEarnedEvents) = Cardinality(earned)

\* C13 as stated: processRewards emits history events only for differences
\* against the snapshot's prior state: one tier-change event (old tier, new
\* tier, points) if and only if the computed tier differs from current_tier,
\* one badge-earned event for exactly each badge computed and not in
\* current_badges (none for badges held, none for badges lost), and no event
\* when tier and badges are unchanged.
C13_EventsExactlyForDifferences ==
    call = "process_lawyer_rewards" => EventsAreTheDifferences

\* C13 (amended): with a db connection configured the events are exactly
\* those differences (current_tier defaulting to standard and current_badges
\* to none when absent); without a db connection no event is produced.
C13_EventsForDifferencesWithDb ==
    call = "process_lawyer_rewards" =>
        IF db THEN EventsAreTheDifferences ELSE history = <<>>

\* gold holding Top Rated becomes platinum: one tier-change event, and a
\* badge-earned event for every badge but Top Rated
C13_Witness ==
    /\ call = "process_lawyer_rewards" /\ db
    /\ Get(args.lawyer_data, "reward_tier", "standard") = "gold"
    /\ Get(args.lawyer_data, "badges", <<>>) = <<"Top Rated">>
    /\ ret.reward_tier = "platinum"
    /\ "Top Rated" \in ToSet(ret.badges)
    /\ history[1] = [event_type |-> "tier_change", previous_tier |-> "gold",
                     new_tier |-> "platinum", points |-> ret.reward_points]
    /\ Len(history) = Len(ret.badges)

-----------------------------------------------------------------------------
(* Determinism and composition *)

\* the four fields of a RewardResult
ResultFields(r) ==
    <<r.reward_points, r.reward_tier, ToSet(r.badges), r.search_boost>>

\* C14: the engine is deterministic: processRewards on the same snapshot
\* returns the same points, tier, badge set and search_boost whether or not a
\* db connection is configured and whatever the clock reads, and determineTier
\* run again on the same (points, rating, review_count) returns the same tier.
C14_Deterministic ==
    /\ call = "process_lawyer_rewards" =>
        \A other_db \in BOOLEAN :
            ResultFields(process_lawyer_rewards(other_db, args.lawyer_data))
                = ResultFields(ret)
    /\ call = "determine_reward_tier" =>
        /\ determine_reward_tier(args.points, args.rating, args.review_count)
              = ret.engine
        /\ backend_determine_reward_tier(args.points, args.rating,
                                         args.review_count) = ret.backend

\* a run with a db connection that grants Top 10%, the badge whose check
\* mentions the db: the run without a connection grants the same badges
C14_Witness ==
    /\ call = "process_lawyer_rewards" /\ db
    /\ "Top 10%" \in ToSet(ret.badges)
    /\ ret.last_updated = 2
    /\ process_lawyer_rewards(FALSE, args.lawyer_data).badges = ret.badges

\* the snapshot with key k set to the optional value o (o = <<>>: removed)
WithOpt(d, k, o) ==
    [x \in (DOMAIN d \ {k}) \cup (IF o = <<>> THEN {} ELSE {k}) |->
        IF x = k THEN o[1] ELSE d[x]]

\* prior states (current_tier, current_badges) of a snapshot, each optional
PriorStates ==
    { <<<<>>, <<>>>>,
      <<<<"silver">>, <<<<>>>>>>,
      <<<<"standard">>, <<<<"Rising Star", "Top Rated">>>>>>,
      <<<<"platinum">>, <<<<"Top 10%", "Quick Responder", "Case Winner">>>>>> }

\* C15: processRewards composes the four steps on the values of the same run:
\* tier = determineTier(computePoints(snapshot), rating, review_count), badges
\* = evaluateBadges(snapshot), search_boost = computeSearchBoost(that tier,
\* those badges, recency_factor or 1.0 when absent); and the snapshot's
\* current_tier and current_badges never influence tier, badges or boost.
C15_ComposesFourSteps ==
    call = "process_lawyer_rewards" =>
        LET d == args.lawyer_data IN
        /\ ret.reward_points = calculate_reward_points(d).points
        /\ ret.reward_tier =
              determine_reward_tier(calculate_reward_points(d).points,
                                    Get(d, "rating", 0),
                                    Get(d, "review_count", 0))
        /\ ret.badges = check_badge_eligibility(db, d)
        /\ ret.search_boost =
              calculate_search_boost(ret.reward_tier, ret.badges,
                                     Get(d, "recency_factor", 100))
        /\ \A prior \in PriorStates :
              ResultFields(process_lawyer_rewards(
                  db, WithOpt(WithOpt(d, "reward_tier", prior[1]),
                              "badges", prior[2])))
                  = ResultFields(ret)

\* a gold lawyer holding Top Rated whose metrics now give another tier and no
\* Top Rated: the boost is that of the new tier and the new badges
C15_Witness ==
    /\ call = "process_lawyer_rewards"
    /\ Get(args.lawyer_data, "reward_tier", "standard") = "gold"
    /\ Get(args.lawyer_data, "badges", <<>>) = <<"Top Rated">>
    /\ ret.reward_tier = "silver"
    /\ "Top Rated" \notin ToSet(ret.badges)
    /\ ret.search_boost =
          calculate_search_boost("silver", ret.badges,
                                 Get(args.lawyer_data, "recency_factor", 100))

-----------------------------------------------------------------------------
(* Tier and badges of one result *)

\* C20: every result of process_lawyer_rewards is consistent between tier and
\* badges: platinum always comes with both Experienced Pro and Client
\* Favorite, gold and platinum never with Rising Star, and no result holds
\* both Rising Star and Experienced Pro.
C20_TierBadgeConsistency ==
    call = "process_lawyer_rewards" =>
        LET B == ToSet(ret.badges) IN
        /\ ret.reward_tier = "platinum" =>
              {"Experienced Pro", "Client Favorite"} \subseteq B
        /\ ret.reward_tier \in {"gold", "platinum"} => "Rising Star" \notin B
        /\ ~({"Rising Star", "Experienced Pro"} \subseteq B)

\* a platinum result for a lawyer registered 100 days ago, young enough for
\* Rising Star: both badges of platinum and no Rising Star
C20_Witness ==
    /\ call = "process_lawyer_rewards"
    /\ ret.reward_tier = "platinum"
    /\ {"Experienced Pro", "Client Favorite"} \subseteq ToSet(ret.badges)
    /\ "Rising Star" \notin ToSet(ret.badges)
    /\ Get(args.lawyer_data, "days_active", Infinity) = 100

-----------------------------------------------------------------------------
(* Backend claims *)

\* no post_review request is in progress
Quiescent == \A r \in Requests : requests[r].pc \in {"idle", "done"}

\* C16: under any interleaving of concurrent post_review requests for the same
\* lawyer, once all requests have completed the stored review_count is the
\* number of reviews stored for the lawyer and the stored rating the 1-decimal
\* average of their ratings.
C16_StoredRatingMatchesReviews ==
    Quiescent =>
        \A l \in Lawyers : users[l].exists =>
            /\ users[l].review_count = Cardinality(ReviewsOf(l))
            /\ users[l].rating = NewAvgRating(SumOfRatings(ReviewsOf(l)),
                                              Cardinality(ReviewsOf(l)))

\* C17: whenever no post_review request is in progress the stored reward
\* fields are those of the stored rating and review_count: reward_points =
\* calculate_reward_points(rating, review_count), reward_tier =
\* determine_reward_tier(reward_points, rating, review_count), badges =
\* determine_badges(rating, review_count, _) as a set; from registration on.
C17_RewardFieldsConsistent ==
    Quiescent =>
        \A l \in Lawyers : users[l].exists =>
            LET u == users[l] IN
            /\ u.reward_points =
                  backend_calculate_reward_points(u.rating, u.review_count)
            /\ u.reward_tier =
                  backend_determine_reward_tier(u.reward_points, u.rating,
                                                u.review_count)
            /\ ToSet(u.badges) =
                  ToSet(determine_badges(u.rating, u.review_count, <<>>))

\* C18: in every reachable state of the review store each (client, lawyer)
\* pair has at most one review, and a request answered 409 has inserted
\* nothing; also when two requests of the same client run concurrently.
C18_OneReviewPerClient ==
    /\ \A rv1 \in reviews, rv2 \in reviews :
          (rv1.user_id = rv2.user_id /\ rv1.lawyer_id = rv2.lawyer_id)
              => rv1 = rv2
    /\ \A r \in Requests :
          (requests[r].pc = "done" /\ requests[r].status = 409) =>
              /\ requests[r].review_result = 0
              /\ \A rv \in reviews : rv.id # r

\* a rating that is missing, non-numeric or outside [1,5]
StatedInvalidRating(rating) ==
    \/ rating.type # "number"
    \/ rating.v < 1
    \/ rating.v > 5

\* what a returned request says about itself
AnsweredAsStated(r) ==
    LET q == requests[r] IN
    /\ q.current_user.role # "client" => q.status = 403
    /\ (q.current_user.role = "client" /\ StatedInvalidRating(q.rating))
          => q.status = 400
    /\ q.status \in {403, 400, 404, 409, 201}
    /\ q.status # 201 => \A rv \in reviews : rv.id # r
    /\ q.status = 201 => Cardinality({rv \in reviews : rv.id = r}) = 1

\* the step in which request r returns
Returns(r) == requests[r].pc # "done" /\ requests'[r].pc = "done"

\* C19: a rejected post_review changes nothing: a caller that is no client is
\* answered 403, a rating that is missing, non-numeric or outside [1,5] 400, a
\* lawyer that does not exist 404, a client that already reviewed the lawyer
\* 409, and none of them inserts a review or changes the lawyer's rating,
\* review_count, reward_points, reward_tier or badges; only a request answered
\* 201 inserts exactly one review and updates those fields.
C19_RejectedChangesNothing ==
    /\ [](\A r \in Requests : requests[r].pc = "done" => AnsweredAsStated(r))
    /\ [][\A r \in Requests :
             /\ (Returns(r) /\ requests'[r].status # 201)
                   => (users' = users /\ reviews' = reviews)
             /\ (requests'[r] # requests[r]
                 /\ (reviews' # reviews \/ users' # users))
                   => (requests'[r].review_result = r
                       /\ Cardinality(reviews') <= Cardinality(reviews) + 1)
         ]_vars

====
